---- MODULE Spec2Model ----
(***************************************************************************)
(* gcp-oci-proxy: an HTTP gateway over a remote artifact registry.         *)
(*                                                                         *)
(* src/main.go is the index-backed gateway: main builds the process-wide   *)
(* index RepositoryDB from the backend's paginated listing (initDB), then  *)
(* serves digest-addressed and tag-addressed downloads from it.            *)
(* src/unnamed/part_000 is the metadata gateway: it passes a path segment  *)
(* straight through to the backend's metadata lookup.                      *)
(*                                                                         *)
(* Go strings that the code takes apart (resource identifiers, request     *)
(* paths) are sequences of one-character strings; strings the code only    *)
(* compares or copies (tags, uris) are TLA+ strings.                       *)
(***************************************************************************)
EXTENDS Integers, Sequences, FiniteSets, TLC

VARIABLES
    gateway,        \* which of the two programs runs: "index" or "metadata"
    perIterVar,     \* the build's loop-variable semantics: TRUE = one variable per iteration (go >= 1.22)
    pc,             \* position of the main goroutine
    exitCause,      \* why the process ended ("none" while it runs)
    listing,        \* the items the backend's iterator has returned, in order
    listingEnd,     \* how the backend's listing ends: "open" (not yet known), "done", "error"
    itPos,          \* number of items the current iterator has returned
    RepositoryDB,   \* RepositoryDB.Assets
    builds,         \* number of initDB calls that have returned
    builtIndex,     \* RepositoryDB.Assets as it was when the first initDB call returned
    listener,       \* "unbound", "bound", "closed", "failed"
    signalled,      \* a signal is buffered in (or was received from) the done channel
    graceExpired,   \* the shutdown context's deadline has passed
    reqs,           \* the connections accepted so far and their requests, one record each
    resolved        \* the last lookup a harness ran against the index (BuildSpec)

vars == <<gateway, perIterVar, pc, exitCause, listing, listingEnd, itPos, RepositoryDB,
          builds, builtIndex, listener, signalled, graceExpired, reqs, resolved>>

(***************************************************************************)
(* Bounds of the model.                                                    *)
(***************************************************************************)
MaxItems == 2       \* items in the backend's listing
MaxTags == 2        \* tags listed for one item
MaxRequests == 2    \* connections accepted by the listener (one request each)
MaxBuilds == 2      \* initDB calls of the rebuild harness
MaxLen == 5         \* characters of an identifier the parser is tried on

(***************************************************************************)
(* Strings.                                                                *)
(***************************************************************************)
\* The index of the first occurrence of character c in s, 0 when absent.
IndexByte(s, c) ==
    IF \E i \in 1..Len(s) : s[i] = c
    THEN CHOOSE i \in 1..Len(s) : s[i] = c /\ \A j \in 1..(i - 1) : s[j] # c
    ELSE 0

\* strings.Split(s, sep) for a one-character separator: always at least one part.
RECURSIVE Split(_, _)
Split(s, sep) ==
    LET i == IndexByte(s, sep)
    IN  IF i = 0 THEN <<s>>
        ELSE <<SubSeq(s, 1, i - 1)>> \o Split(SubSeq(s, i + 1, Len(s)), sep)

\* strings.Contains(s, sub)
Contains(s, sub) ==
    \E i \in 0..(Len(s) - Len(sub)) : SubSeq(s, i + 1, i + Len(sub)) = sub

\* strings.HasPrefix(s, prefix)
HasPrefix(s, prefix) ==
    Len(s) >= Len(prefix) /\ SubSeq(s, 1, Len(prefix)) = prefix

\* All sequences over S of length at most n.
RECURSIVE SeqsUpTo(_, _)
SeqsUpTo(S, n) ==
    IF n = 0 THEN {<<>>}
    ELSE LET shorter == SeqsUpTo(S, n - 1)
         IN  shorter \cup {Append(q, x) : q \in shorter, x \in S}

(***************************************************************************)
(* The backend's listing: the inputs of the build.                         *)
(***************************************************************************)
Slash == "/"
At == "@"

MediaTypes == {"m"}
Tags == {"latest", "v1"}

\* Listed images, resp.Name and resp.Uri: two digests of one name, the same
\* name@digest under two parents, and a second name.
ListedImages ==
    {[name |-> <<"p", Slash, "a", At, "1">>, uri |-> "u1"],
     [name |-> <<"q", Slash, "a", At, "1">>, uri |-> "u2"],
     [name |-> <<"p", Slash, "a", At, "2">>, uri |-> "u3"],
     [name |-> <<"p", Slash, "b", At, "1">>, uri |-> "u4"]}

\* Identifiers the parser refuses: one path segment, no separator, two separators.
MalformedRaw ==
    {<<"a", At, "1">>,
     <<"p", Slash, "a">>,
     <<"p", Slash, "a", At, "1", At, "2">>}

TagLists == SeqsUpTo(Tags, MaxTags)

\* One element of a ListDockerImages response: resp.Name, resp.Uri, resp.MediaType, resp.Tags.
Items ==
    {[name |-> img.name, uri |-> img.uri, mediaType |-> mt, tags |-> tags] :
        img \in ListedImages, mt \in MediaTypes, tags \in TagLists}
    \cup [name : MalformedRaw, uri : {"u1"}, mediaType : MediaTypes, tags : {<<>>}]

\* The items the repository the serving gateway is started against can list.
ServedItems ==
    {[name |-> <<"p", Slash, "a", At, "1">>, uri |-> "u1", mediaType |-> "m",
      tags |-> <<"v1", "latest">>],
     [name |-> <<"p", Slash, "a", At, "2">>, uri |-> "u3", mediaType |-> "m",
      tags |-> <<"latest">>],
     [name |-> <<"p", Slash, "a">>, uri |-> "u1", mediaType |-> "m", tags |-> <<>>]}

(***************************************************************************)
(* initDB and its parser.                                                  *)
(***************************************************************************)
\* A parser that takes the first two parts of the trailing segment and lets
\* further separators pass.
extractNameAndShaLoose(input) ==
    LET parts == Split(input, Slash)
    IN  IF Len(parts) < 2
        THEN [name |-> <<>>, sha |-> <<>>, err |-> "invalid input format"]
        ELSE LET namePart == parts[Len(parts)]
                 nameParts == Split(namePart, At)
             IN  IF Len(nameParts) < 2
                 THEN [name |-> <<>>, sha |-> <<>>, err |-> "invalid name and SHA format"]
                 ELSE [name |-> nameParts[1], sha |-> nameParts[2], err |-> ""]

\* extractNameAndSha(input): err is "" on success.
extractNameAndSha(input) ==
    LET parts == Split(input, Slash)
    IN  IF Len(parts) < 2
        THEN [name |-> <<>>, sha |-> <<>>, err |-> "invalid input format"]
        ELSE LET namePart == parts[Len(parts)]
                 nameParts == Split(namePart, At)
             IN  IF Len(nameParts) # 2
                 THEN [name |-> <<>>, sha |-> <<>>, err |-> "invalid name and SHA format"]
                 ELSE [name |-> nameParts[1], sha |-> nameParts[2], err |-> ""]

\* The values the pointers of asset.Tags point to after
\*     for _, tag := range resp.Tags { asset.Tags = append(asset.Tags, &tag) }
\* With one loop variable per iteration each pointer keeps its own tag; with one
\* variable for the whole loop every pointer reads the last tag assigned to it.
assetTags(tags, perIter) ==
    IF perIter THEN tags
    ELSE [i \in 1..Len(tags) |-> tags[Len(tags)]]

\* The Asset literal of initDB for one listed item.
newAsset(name, sha, resp, perIter) ==
    [Name |-> name, SHA |-> sha, RawName |-> resp.name, URI |-> resp.uri,
     MediaType |-> resp.mediaType, Tags |-> assetTags(resp.tags, perIter)]

\* A build that drops an item it cannot parse and carries on.
initDBItemSkipMalformed(db, resp, perIter) ==
    LET parsed == extractNameAndSha(resp.name)
    IN  IF parsed.err # "" THEN [err |-> "", db |-> db]
        ELSE [err |-> "", db |-> Append(db, newAsset(parsed.name, parsed.sha, resp, perIter))]

\* The body of initDB's loop for one item the iterator returned: the error it
\* returns ("" to carry on) and RepositoryDB.Assets afterwards.
initDBItem(db, resp, perIter) ==
    LET parsed == extractNameAndSha(resp.name)
    IN  IF parsed.err # "" THEN [err |-> parsed.err, db |-> db]
        ELSE [err |-> "", db |-> Append(db, newAsset(parsed.name, parsed.sha, resp, perIter))]

(***************************************************************************)
(* The two lookups of the request handlers.                                *)
(***************************************************************************)
\* for _, tag := range asset.Tags { if *tag == assetTag {...} }
RECURSIVE tagMatches(_, _, _)
tagMatches(tags, i, assetTag) ==
    IF i > Len(tags) THEN FALSE
    ELSE IF tags[i] = assetTag THEN TRUE
    ELSE tagMatches(tags, i + 1, assetTag)

\* A digest lookup that compares the digest alone.
RECURSIVE lookupByDigestShaOnly(_, _, _, _)
lookupByDigestShaOnly(db, i, assetName, assetSHA) ==
    IF i > Len(db) THEN 0
    ELSE IF db[i].SHA = assetSHA THEN i
    ELSE lookupByDigestShaOnly(db, i + 1, assetName, assetSHA)

\* The scan of the digest-addressed handler from position i on: the position of
\* the asset it serves, 0 when the loop ends without a match.
RECURSIVE lookupByDigest(_, _, _, _)
lookupByDigest(db, i, assetName, assetSHA) ==
    IF i > Len(db) THEN 0
    ELSE IF db[i].Name = assetName /\ db[i].SHA = assetSHA THEN i
    ELSE lookupByDigest(db, i + 1, assetName, assetSHA)

\* A tag lookup that keeps scanning and serves the last match.
RECURSIVE lookupByTagLast(_, _, _, _)
lookupByTagLast(db, i, assetName, assetTag) ==
    IF i > Len(db) THEN 0
    ELSE LET later == lookupByTagLast(db, i + 1, assetName, assetTag)
         IN  IF later # 0 THEN later
             ELSE IF db[i].Name = assetName /\ tagMatches(db[i].Tags, 1, assetTag) THEN i
             ELSE 0

\* The scan of the tag-addressed handler from position i on.
RECURSIVE lookupByTag(_, _, _, _)
lookupByTag(db, i, assetName, assetTag) ==
    IF i > Len(db) THEN 0
    ELSE IF db[i].Name = assetName /\ tagMatches(db[i].Tags, 1, assetTag) THEN i
    ELSE lookupByTag(db, i + 1, assetName, assetTag)

(***************************************************************************)
(* The backend's iterator and initDB's loop.                               *)
(***************************************************************************)
\* What it.Next() can return now. An iterator over a listing already returned
\* (a second build against the unchanged backend) returns it again; otherwise the
\* backend decides: another item drawn from `items`, iterator.Done, or an error.
ItNextOutcomes(items) ==
    IF itPos < Len(listing)
    THEN {[kind |-> "item", item |-> listing[itPos + 1]]}
    ELSE (IF listingEnd \in {"open", "done"} THEN {[kind |-> "done"]} ELSE {})
         \cup (IF listingEnd \in {"open", "error"} THEN {[kind |-> "error"]} ELSE {})
         \cup (IF listingEnd = "open" /\ Len(listing) < MaxItems
               THEN {[kind |-> "item", item |-> it] : it \in items}
               ELSE {})

\* What initDB does with one answer of the iterator: "more" (next iteration),
\* "nil" (break, return nil) or "err" (return err).
initDBResult(o, db, perIter) ==
    IF o.kind = "done" THEN "nil"
    ELSE IF o.kind = "error" THEN "err"
    ELSE IF initDBItem(db, o.item, perIter).err # "" THEN "err"
    ELSE "more"

\* One iteration of initDB's loop on the answer o: the backend's and the index's
\* new state.
InitDBIteration(o) ==
    /\ listing' = IF o.kind = "item" /\ itPos = Len(listing)
                  THEN Append(listing, o.item) ELSE listing
    /\ itPos' = IF o.kind = "item" THEN itPos + 1 ELSE itPos
    /\ listingEnd' = IF o.kind = "done" THEN "done"
                     ELSE IF o.kind = "error" THEN "error"
                     ELSE listingEnd
    /\ RepositoryDB' = IF o.kind = "item"
                       THEN initDBItem(RepositoryDB, o.item, perIterVar).db
                       ELSE RepositoryDB

\* The bookkeeping of an initDB call that returns.
InitDBReturns(result) ==
    /\ builds' = IF result = "more" THEN builds ELSE builds + 1
    /\ builtIndex' = IF result = "nil" /\ builds = 0 THEN RepositoryDB' ELSE builtIndex

(***************************************************************************)
(* The main goroutine.                                                     *)
(***************************************************************************)
Running == pc # "exited"

\* A main that starts the server before it builds the index.
ServeBeforeBuildOrder ==
    <<"newConfig", "newClient", "startServer", "initDB", "registryClient", "waitSignal">>

\* The order of main's steps in src/main.go.
IndexStartupOrder ==
    <<"newConfig", "newClient", "initDB", "registryClient", "startServer", "waitSignal">>

\* The order of main's steps in src/unnamed/part_000.
MetadataStartupOrder == <<"startServer", "waitSignal">>

StartupOrder(g) == IF g = "index" THEN IndexStartupOrder ELSE MetadataStartupOrder

\* The step of main that follows step p.
Succ(g, p) ==
    LET order == StartupOrder(g)
        i == CHOOSE k \in 1..Len(order) : order[k] = p
    IN  order[i + 1]

\* log.Fatal: the process ends at once, whatever its goroutines are doing.
Exit(cause) ==
    /\ pc' = "exited"
    /\ exitCause' = cause

\* newConfig: a missing PROJECT, REPOSITORY or GOOGLE_APPLICATION_CREDENTIALS is fatal.
NewConfig ==
    /\ pc = "newConfig"
    /\ \E ok \in BOOLEAN :
          IF ok THEN pc' = Succ(gateway, pc) /\ exitCause' = exitCause
          ELSE Exit("startupFatal")
    /\ UNCHANGED <<gateway, perIterVar, listing, listingEnd, itPos, RepositoryDB, builds,
                   builtIndex, listener, signalled, graceExpired, reqs, resolved>>

\* artifactregistry.NewClient
NewClient ==
    /\ pc = "newClient"
    /\ \E ok \in BOOLEAN :
          IF ok THEN pc' = Succ(gateway, pc) /\ exitCause' = exitCause
          ELSE Exit("startupFatal")
    /\ UNCHANGED <<gateway, perIterVar, listing, listingEnd, itPos, RepositoryDB, builds,
                   builtIndex, listener, signalled, graceExpired, reqs, resolved>>

\* One iteration of initDB's loop within main; when initDB returns, main either
\* goes on (nil) or ends the process (log.Fatalf).
InitDB ==
    /\ pc = "initDB"
    /\ \E o \in ItNextOutcomes(ServedItems) :
          LET result == initDBResult(o, RepositoryDB, perIterVar)
          IN  /\ InitDBIteration(o)
              /\ InitDBReturns(result)
              /\ IF result = "more" THEN pc' = pc /\ exitCause' = exitCause
                 ELSE IF result = "nil" THEN pc' = Succ(gateway, pc) /\ exitCause' = exitCause
                 ELSE Exit("startupFatal")
    /\ UNCHANGED <<gateway, perIterVar, listener, signalled, graceExpired, reqs, resolved>>

\* registry.NewClient
RegistryNewClient ==
    /\ pc = "registryClient"
    /\ \E ok \in BOOLEAN :
          IF ok THEN pc' = Succ(gateway, pc) /\ exitCause' = exitCause
          ELSE Exit("startupFatal")
    /\ UNCHANGED <<gateway, perIterVar, listing, listingEnd, itPos, RepositoryDB, builds,
                   builtIndex, listener, signalled, graceExpired, reqs, resolved>>

\* The routes are registered, the server is made and its goroutine is started.
StartServer ==
    /\ pc = "startServer"
    /\ pc' = Succ(gateway, pc)
    /\ listener' = "starting"
    /\ UNCHANGED <<gateway, perIterVar, exitCause, listing, listingEnd, itPos, RepositoryDB,
                   builds, builtIndex, signalled, graceExpired, reqs, resolved>>

\* The server's goroutine: ListenAndServe binds the listener, or fails (log.Fatalf),
\* or finds the server already shut down (http.ErrServerClosed).
ListenAndServe ==
    /\ Running
    /\ listener = "starting"
    /\ IF pc = "shutdown"
       THEN listener' = "closed" /\ UNCHANGED <<pc, exitCause>>
       ELSE \E ok \in BOOLEAN :
               IF ok THEN listener' = "bound" /\ UNCHANGED <<pc, exitCause>>
               ELSE listener' = "failed" /\ Exit("listenFatal")
    /\ UNCHANGED <<gateway, perIterVar, listing, listingEnd, itPos, RepositoryDB, builds,
                   builtIndex, signalled, graceExpired, reqs, resolved>>

\* SIGINT or SIGTERM arrives; signal.Notify puts it in the done channel (buffer 1).
Signal ==
    /\ Running
    /\ ~signalled
    /\ signalled' = TRUE
    /\ UNCHANGED <<gateway, perIterVar, pc, exitCause, listing, listingEnd, itPos,
                   RepositoryDB, builds, builtIndex, listener, graceExpired, reqs, resolved>>

\* A server that shuts down without closing its listener.
listenerLeftOpen(l) == l

\* What server.Shutdown does to the listener at once.
listenerAfterShutdown(l) == IF l = "bound" THEN "closed" ELSE l

\* main receives from done and calls server.Shutdown with the 15 s context.
BeginShutdown ==
    /\ pc = "waitSignal"
    /\ signalled
    /\ pc' = "shutdown"
    /\ listener' = listenerAfterShutdown(listener)
    /\ UNCHANGED <<gateway, perIterVar, exitCause, listing, listingEnd, itPos, RepositoryDB,
                   builds, builtIndex, signalled, graceExpired, reqs, resolved>>

\* The deadline of the shutdown context passes.
GraceExpire ==
    /\ pc = "shutdown"
    /\ ~graceExpired
    /\ graceExpired' = TRUE
    /\ UNCHANGED <<gateway, perIterVar, pc, exitCause, listing, listingEnd, itPos,
                   RepositoryDB, builds, builtIndex, listener, signalled, reqs, resolved>>

\* The connections Shutdown waits for: a handler is running, or the connection is
\* new and its request may still come.
InFlight(rs) == {i \in 1..Len(rs) : rs[i].stage \notin {"done", "fatal", "closed"}}

\* server.Shutdown returns nil once no connection is new or active.
shutdownMayReturnNil(rs) == InFlight(rs) = {}

\* server.Shutdown returns: nil when every connection is idle (main returns and
\* the process ends), the context's error once the deadline has passed (log.Fatalf).
ShutdownReturn ==
    /\ pc = "shutdown"
    /\ \/ shutdownMayReturnNil(reqs) /\ Exit("shutdownClean")
       \/ graceExpired /\ Exit("shutdownTimeout")
    /\ UNCHANGED <<gateway, perIterVar, listing, listingEnd, itPos, RepositoryDB, builds,
                   builtIndex, listener, signalled, graceExpired, reqs, resolved>>

(***************************************************************************)
(* http.ResponseWriter, as the handlers use it.                            *)
(***************************************************************************)
\* A response nothing has been written to: status 0 stands for "not written yet".
NewW == [status |-> 0, disposition |-> <<>>, body |-> <<>>]

\* w.Header().Set("Content-Disposition", v): no effect once the status line is out.
SetDisposition(w, v) == IF w.status = 0 THEN [w EXCEPT !.disposition = v] ELSE w

\* w.WriteHeader(code): the first call decides the status.
WriteHeader(w, code) == IF w.status = 0 THEN [w EXCEPT !.status = code] ELSE w

\* w.Write(bytes): writes the status line (200) first when none was written.
Write(w, bytes) ==
    LET started == WriteHeader(w, 200)
    IN  [started EXCEPT !.body = started.body \o bytes]

\* io.Copy(w, reader): a reader with nothing left makes no Write call.
Copy(w, bytes) == IF Len(bytes) = 0 THEN w ELSE Write(w, bytes)

\* The handler returns: net/http sends status 200 when the handler wrote none.
Finish(w) == WriteHeader(w, 200)

(***************************************************************************)
(* The request handlers of the index-backed gateway.                       *)
(***************************************************************************)
\* The (route, assetName, assetSHA or assetTag) of the routed requests a harness
\* resolves against a built index.
LookupInputs ==
    [kind : {"digest"}, name : {<<"a">>, <<"b">>}, key : {<<"1">>, <<"2">>, <<"3">>}]
    \cup [kind : {"tag"}, name : {<<"a">>, <<"b">>}, key : Tags \cup {"v2"}]

\* The routed requests clients send to the serving gateway.
RequestInputs ==
    {[kind |-> "digest", name |-> <<"a">>, key |-> <<"1">>],
     [kind |-> "digest", name |-> <<"a">>, key |-> <<"3">>],
     [kind |-> "tag", name |-> <<"a">>, key |-> "latest"]}

\* What client.Pull can return: result.Chart.Meta.Name, .Version and result.Chart.Data.
NoChart == [name |-> "", version |-> "", data |-> <<>>]
PullResults ==
    {[name |-> "c", version |-> "1", data |-> <<>>],
     [name |-> "c", version |-> "2", data |-> <<"x", "y">>]}

\* fmt.Sprintf("attachment; filename=%s-%s.tgz", name, version)
Disposition(chart) == <<"attachment; filename=", chart.name, "-", chart.version, ".tgz">>

\* The position of the asset a routed request resolves to, 0 for none.
lookup(db, kind, name, key) ==
    IF kind = "digest" THEN lookupByDigest(db, 1, name, key)
    ELSE lookupByTag(db, 1, name, key)

\* A tag-addressed handler that sets the header only after the body is written.
tagStreamHeaderLate(w, chart) ==
    SetDisposition(Copy(w, chart.data), Disposition(chart))

\* What the digest-addressed handler writes once the pull has succeeded.
digestStream(w, chart) ==
    Copy(WriteHeader(SetDisposition(w, Disposition(chart)), 200), chart.data)

\* What the tag-addressed handler writes once the pull has succeeded.
tagStream(w, chart) ==
    Copy(SetDisposition(w, Disposition(chart)), chart.data)

\* A connection the listener has just accepted (kind "conn": its request is still
\* to be read), and the request read from it with its route parameters.
NewRequest(kind, name, key) ==
    [kind |-> kind, name |-> name, key |-> key, asset |-> 0, stage |-> "new",
     credential |-> "", loginAuth |-> "", loginURI |-> "", pullURI |-> "",
     chart |-> NoChart,
     w |-> NewW, err |-> "", backendCalls |-> 0, finishedIn |-> ""]

ServerUnchanged ==
    UNCHANGED <<gateway, perIterVar, listing, listingEnd, itPos, RepositoryDB, builds,
                builtIndex, listener, signalled, graceExpired, resolved>>

\* A handler calls log.Fatal(err): the process ends with the request unanswered.
Fatal(i, err) ==
    /\ reqs' = [reqs EXCEPT ![i].stage = "fatal", ![i].err = err]
    /\ Exit("requestFatal")

\* The server's goroutine accepts a connection, while the listener is open, and
\* starts the connection's goroutine, which waits for the request.
Accept ==
    /\ Running
    /\ listener = "bound"
    /\ Len(reqs) < MaxRequests
    /\ reqs' = Append(reqs, NewRequest("conn", <<>>, <<>>))
    /\ UNCHANGED <<pc, exitCause>>
    /\ ServerUnchanged

\* A new connection ends without a request: the client hangs up, ReadTimeout
\* (5 s) passes, or Shutdown closes it as idle once it has been new for 5 s.
ConnClose ==
    /\ Running
    /\ \E i \in 1..Len(reqs) :
          /\ reqs[i].stage = "new"
          /\ reqs' = [reqs EXCEPT ![i].stage = "closed"]
    /\ UNCHANGED <<pc, exitCause>>
    /\ ServerUnchanged

\* The request of a connection is read, also after Shutdown was called, and the
\* handler of its route scans the index. Without a match the handler falls off
\* the end of its loop and returns, having written nothing.
Handle ==
    /\ gateway = "index"
    /\ Running
    /\ \E i \in 1..Len(reqs) :
          /\ reqs[i].stage = "new"
          /\ \E in \in RequestInputs :
                LET r == NewRequest(in.kind, in.name, in.key)
                    pos == lookup(RepositoryDB, in.kind, in.name, in.key)
                IN  reqs' = [reqs EXCEPT ![i] =
                        IF pos = 0
                        THEN [r EXCEPT !.stage = "done", !.w = Finish(r.w), !.finishedIn = pc]
                        ELSE [r EXCEPT !.stage = "cred", !.asset = pos]]
    /\ UNCHANGED <<pc, exitCause>>
    /\ ServerUnchanged

\* getCredential(config): the credential file is read in full, or log.Fatal.
GetCredential ==
    /\ Running
    /\ \E i \in 1..Len(reqs) :
          /\ reqs[i].stage = "cred"
          /\ \E ok \in BOOLEAN :
                IF ok
                THEN /\ reqs' = [reqs EXCEPT ![i].stage = "login", ![i].credential = "_json_key"]
                     /\ UNCHANGED <<pc, exitCause>>
                ELSE Fatal(i, "open credential file")
    /\ ServerUnchanged

\* A handler that skips the login when another request has already logged in
\* against the asset's uri.
LoginCached ==
    /\ Running
    /\ \E i \in 1..Len(reqs) :
          /\ reqs[i].stage = "login"
          /\ IF \E j \in 1..Len(reqs) :
                    j # i /\ reqs[j].loginURI = RepositoryDB[reqs[i].asset].URI
             THEN /\ reqs' = [reqs EXCEPT ![i].stage = "pull"]
                  /\ UNCHANGED <<pc, exitCause>>
             ELSE \E ok \in BOOLEAN :
                     IF ok
                     THEN /\ reqs' = [reqs EXCEPT ![i].stage = "pull",
                                                  ![i].loginAuth = reqs[i].credential,
                                                  ![i].loginURI = RepositoryDB[reqs[i].asset].URI]
                          /\ UNCHANGED <<pc, exitCause>>
                     ELSE Fatal(i, "login failed")
    /\ ServerUnchanged

\* client.Login(asset.URI, registry.LoginOptBasicAuth(user, credential)) with the
\* credential the handler has just read, or log.Fatal.
Login ==
    /\ Running
    /\ \E i \in 1..Len(reqs) :
          /\ reqs[i].stage = "login"
          /\ \E ok \in BOOLEAN :
                IF ok
                THEN /\ reqs' = [reqs EXCEPT ![i].stage = "pull",
                                             ![i].loginAuth = reqs[i].credential,
                                             ![i].loginURI = RepositoryDB[reqs[i].asset].URI]
                     /\ UNCHANGED <<pc, exitCause>>
                ELSE Fatal(i, "login failed")
    /\ ServerUnchanged

\* client.Pull(asset.URI), or log.Fatal; then the artifact is written and the
\* handler returns.
Pull ==
    /\ Running
    /\ \E i \in 1..Len(reqs) :
          /\ reqs[i].stage = "pull"
          /\ \/ \E chart \in PullResults :
                   /\ reqs' = [reqs EXCEPT
                          ![i].stage = "done",
                          ![i].pullURI = RepositoryDB[reqs[i].asset].URI,
                          ![i].chart = chart,
                          ![i].w = Finish(IF reqs[i].kind = "digest"
                                          THEN digestStream(reqs[i].w, chart)
                                          ELSE tagStream(reqs[i].w, chart)),
                          ![i].finishedIn = pc]
                   /\ UNCHANGED <<pc, exitCause>>
             \/ Fatal(i, "pull failed")
    /\ ServerUnchanged

(***************************************************************************)
(* The request handler of the metadata gateway.                            *)
(***************************************************************************)
Ico == <<".", "i", "c", "o">>

\* Path components of requests to /{asset}.
MetaPaths ==
    {<<"f">> \o Ico,
     <<"x">> \o Ico \o <<"n">>,
     <<"i", "m", "g">>}

NotFoundBody == <<"404 Not Found\n">>

\* formatPath(path) of the metadata gateway, the leading "/" removed.
metaFormatPath(path) ==
    <<"projects/%s/locations/%s/repositories/%s/dockerImages/">>
        \o (IF HasPrefix(path, <<Slash>>) THEN SubSeq(path, 2, Len(path)) ELSE path)

\* The request of a connection is read, also after Shutdown was called, and
\* getAssetsHandler runs up to the backend call: a path containing ".ico" is
\* answered 404 at once; any other path goes to getImageMetadataReader.
MetaHandle ==
    /\ gateway = "metadata"
    /\ Running
    /\ \E i \in 1..Len(reqs) :
          /\ reqs[i].stage = "new"
          /\ \E path \in MetaPaths :
                LET r == NewRequest("meta", path, <<>>)
                IN  reqs' = [reqs EXCEPT ![i] =
                        IF Contains(path, Ico)
                        THEN [r EXCEPT !.stage = "done",
                                       !.w = Finish(Write(WriteHeader(r.w, 404), NotFoundBody)),
                                       !.finishedIn = pc]
                        ELSE [r EXCEPT !.stage = "backend"]]
    /\ UNCHANGED <<pc, exitCause>>
    /\ ServerUnchanged

\* What the handler writes after getImageMetadataReader has returned: status 500
\* with the error's text; or the document, copied by io.Copy (status 200); or,
\* when that copy fails with nothing sent, a WriteHeader(500) that comes after the
\* status line and the copy error's text.
metaAnswer(w, outcome) ==
    IF outcome = "backendError" THEN Write(WriteHeader(w, 500), <<"rpc error">>)
    ELSE IF outcome = "ok" THEN Copy(w, <<"{document}">>)
    ELSE Write(WriteHeader(Write(w, <<>>), 500), <<"write error">>)

\* getImageMetadataReader returns and the handler answers.
MetaBackend ==
    /\ Running
    /\ \E i \in 1..Len(reqs) :
          /\ reqs[i].stage = "backend"
          /\ \E outcome \in {"ok", "backendError", "copyError"} :
                reqs' = [reqs EXCEPT
                    ![i].stage = "done",
                    ![i].backendCalls = reqs[i].backendCalls + 1,
                    ![i].pullURI = metaFormatPath(reqs[i].name),
                    ![i].err = IF outcome = "backendError" THEN "rpc error" ELSE "",
                    ![i].w = Finish(metaAnswer(reqs[i].w, outcome)),
                    ![i].finishedIn = pc]
    /\ UNCHANGED <<pc, exitCause>>
    /\ ServerUnchanged

(***************************************************************************)
(* The gateways: from process start to process end.                        *)
(***************************************************************************)
Init ==
    /\ gateway \in {"index", "metadata"}
    /\ perIterVar \in BOOLEAN
    /\ pc = StartupOrder(gateway)[1]
    /\ exitCause = "none"
    /\ listing = <<>>
    /\ listingEnd = "open"
    /\ itPos = 0
    /\ RepositoryDB = <<>>
    /\ builds = 0
    /\ builtIndex = <<>>
    /\ listener = "unbound"
    /\ signalled = FALSE
    /\ graceExpired = FALSE
    /\ reqs = <<>>
    /\ resolved = [kind |-> "none", name |-> <<>>, key |-> <<>>, pos |-> 0]

MainStep ==
    \/ NewConfig
    \/ NewClient
    \/ InitDB
    \/ RegistryNewClient
    \/ StartServer
    \/ BeginShutdown
    \/ ShutdownReturn

Next ==
    \/ MainStep
    \/ ListenAndServe
    \/ Signal
    \/ GraceExpire
    \/ Accept
    \/ ConnClose
    \/ Handle
    \/ GetCredential
    \/ Login
    \/ Pull
    \/ MetaHandle
    \/ MetaBackend

Spec == Init /\ [][Next]_vars

\* Once main can receive from done it does, a Shutdown that can return does, and
\* the timer of the shutdown context fires: the Go scheduler and runtime timers.
\* Nothing is assumed of the backend or of the handlers.
FairSpec ==
    /\ Spec
    /\ WF_vars(BeginShutdown)
    /\ WF_vars(ShutdownReturn)
    /\ WF_vars(GraceExpire)

(***************************************************************************)
(* The index on its own: a harness that runs initDB against any listing    *)
(* and then resolves routed requests against the index, as the handlers'   *)
(* scans do.                                                               *)
(***************************************************************************)
HarnessUnchanged ==
    UNCHANGED <<gateway, perIterVar, exitCause, listener, signalled, graceExpired, reqs>>

BuildInit ==
    /\ gateway = "index"
    /\ perIterVar \in BOOLEAN
    /\ pc = "initDB"
    /\ exitCause = "none"
    /\ listing = <<>>
    /\ listingEnd = "open"
    /\ itPos = 0
    /\ RepositoryDB = <<>>
    /\ builds = 0
    /\ builtIndex = <<>>
    /\ listener = "unbound"
    /\ signalled = FALSE
    /\ graceExpired = FALSE
    /\ reqs = <<>>
    /\ resolved = [kind |-> "none", name |-> <<>>, key |-> <<>>, pos |-> 0]

\* One iteration of initDB's loop, called by the harness.
BuildStep ==
    /\ pc = "initDB"
    /\ \E o \in ItNextOutcomes(Items) :
          LET result == initDBResult(o, RepositoryDB, perIterVar)
          IN  /\ InitDBIteration(o)
              /\ InitDBReturns(result)
              /\ pc' = IF result = "more" THEN pc
                       ELSE IF result = "nil" THEN "built"
                       ELSE "buildFailed"
    /\ UNCHANGED resolved
    /\ HarnessUnchanged

\* The scan of one handler over the built index (one request per run of the harness).
Resolve ==
    /\ pc = "built"
    /\ resolved.kind = "none"
    /\ \E in \in LookupInputs :
          resolved' = [kind |-> in.kind, name |-> in.name, key |-> in.key,
                       pos |-> lookup(RepositoryDB, in.kind, in.name, in.key)]
    /\ UNCHANGED <<pc, listing, listingEnd, itPos, RepositoryDB, builds, builtIndex>>
    /\ HarnessUnchanged

BuildNext == BuildStep \/ Resolve

BuildSpec == BuildInit /\ [][BuildNext]_vars

\* The harness calls initDB again, against the unchanged backend.
Rebuild ==
    /\ pc \in {"built", "buildFailed"}
    /\ builds < MaxBuilds
    /\ pc' = "initDB"
    /\ itPos' = 0
    /\ UNCHANGED <<listing, listingEnd, RepositoryDB, builds, builtIndex, resolved>>
    /\ HarnessUnchanged

RebuildNext == BuildStep \/ Rebuild

RebuildSpec == BuildInit /\ [][RebuildNext]_vars

(***************************************************************************)
(* The parser on its own: initDB run against a listing of one item whose   *)
(* identifier is any string over the two separators and two other          *)
(* characters.                                                             *)
(***************************************************************************)
ParseAlphabet == {Slash, At, "a", "b"}

ParseInputs == SeqsUpTo(ParseAlphabet, MaxLen)

ParseInit ==
    /\ gateway = "index"
    /\ perIterVar \in BOOLEAN
    /\ pc = "initDB"
    /\ exitCause = "none"
    /\ \E input \in ParseInputs :
          listing = <<[name |-> input, uri |-> "u1", mediaType |-> "m", tags |-> <<>>]>>
    /\ listingEnd = "done"
    /\ itPos = 0
    /\ RepositoryDB = <<>>
    /\ builds = 0
    /\ builtIndex = <<>>
    /\ listener = "unbound"
    /\ signalled = FALSE
    /\ graceExpired = FALSE
    /\ reqs = <<>>
    /\ resolved = [kind |-> "none", name |-> <<>>, key |-> <<>>, pos |-> 0]

ParseSpec == ParseInit /\ [][BuildStep]_vars

(***************************************************************************)
(* Properties.                                                             *)
(***************************************************************************)
Done(i) == reqs[i].stage = "done"

TagSet(asset) == {asset.Tags[j] : j \in 1..Len(asset.Tags)}

Parses(raw) == extractNameAndSha(raw).err = ""

\* C1: every per-request failure is confined to its request: the request is
\* answered with a 5xx status carrying the error's text, and the process is never
\* terminated because of a single request's backend error.
C1_FailureConfined ==
    /\ exitCause # "requestFatal"
    /\ \A i \in 1..Len(reqs) :
          reqs[i].err # "" =>
              /\ Done(i)
              /\ reqs[i].w.status >= 500
              /\ reqs[i].w.body = <<reqs[i].err>>

\* C2: a digest-addressed or tag-addressed request that matches no asset of the
\* index is answered with an explicit 404, never with a success status and an
\* empty body, and no credential read, login or pull is made for it.
C2_NoMatchIs404 ==
    \A i \in 1..Len(reqs) :
        (reqs[i].kind \in {"digest", "tag"} /\ reqs[i].asset = 0 /\ Done(i)) =>
            /\ reqs[i].w.status = 404
            /\ reqs[i].credential = "" /\ reqs[i].loginURI = "" /\ reqs[i].pullURI = ""

\* C3: on the index-backed gateway the listener is bound, and a request is
\* served, only after initDB has returned nil over the whole listing: the
\* iterator returned Done, every listed item parsed and has its entry in the
\* index. When the listing ends in an error or holds an item that does not parse,
\* the process ends with the listener never started and no request answered.
C3_ServeOnlyAfterFullBuild ==
    gateway = "index" =>
        /\ (listener \in {"bound", "closed"} \/ reqs # <<>>) =>
              /\ builds = 1
              /\ listingEnd = "done"
              /\ itPos = Len(listing)
              /\ Len(RepositoryDB) = Len(listing)
              /\ \A k \in 1..Len(listing) :
                    /\ Parses(listing[k].name)
                    /\ RepositoryDB[k].RawName = listing[k].name
        /\ (listingEnd = "error" \/ \E k \in 1..Len(listing) : ~Parses(listing[k].name)) =>
              /\ listener = "unbound"
              /\ reqs = <<>>
              /\ pc = "exited" /\ exitCause = "startupFatal"

\* C3 witness: a request was answered from an index that holds the two listed items.
C3_Witness ==
    /\ gateway = "index"
    /\ listener = "bound"
    /\ Len(listing) = 2 /\ Len(RepositoryDB) = 2
    /\ \E i \in 1..Len(reqs) : Done(i) /\ reqs[i].asset = 2

\* C4: after the build, the digest-addressed lookup of (name, digest) resolves,
\* for every listed item .../name@digest, to the asset built from that item (same
\* rawResourceName and uri), and to no asset when the digest is listed for no item
\* of that name.
C4_DigestLookupFindsItsItem ==
    (pc = "built" /\ resolved.kind = "digest") =>
        /\ \A k \in 1..Len(listing) :
              LET parsed == extractNameAndSha(listing[k].name)
              IN  (parsed.name = resolved.name /\ parsed.sha = resolved.key) =>
                      /\ resolved.pos # 0
                      /\ RepositoryDB[resolved.pos].RawName = listing[k].name
                      /\ RepositoryDB[resolved.pos].URI = listing[k].uri
        /\ (\A k \in 1..Len(listing) :
               LET parsed == extractNameAndSha(listing[k].name)
               IN  parsed.name = resolved.name => parsed.sha # resolved.key)
           => resolved.pos = 0

\* C5: a tag-addressed lookup resolves to the first asset, in listing order,
\* whose name is the requested name and whose recorded tags contain the requested
\* tag, also when several assets carry the tag; it resolves to no asset when there
\* is none.
C5_TagLookupFirstMatch ==
    (pc = "built" /\ resolved.kind = "tag") =>
        LET matching == {k \in 1..Len(RepositoryDB) :
                            /\ RepositoryDB[k].Name = resolved.name
                            /\ resolved.key \in TagSet(RepositoryDB[k])}
        IN  IF matching = {} THEN resolved.pos = 0
            ELSE /\ resolved.pos \in matching
                 /\ \A k \in matching : resolved.pos <= k

\* C5 witness: two assets of different digests carry the requested name and tag,
\* and the lookup resolved to the first.
C5_Witness ==
    /\ pc = "built" /\ resolved.kind = "tag" /\ resolved.pos = 1
    /\ Len(RepositoryDB) = 2
    /\ RepositoryDB[1].SHA # RepositoryDB[2].SHA
    /\ \A k \in 1..2 : /\ RepositoryDB[k].Name = resolved.name
                       /\ resolved.key \in TagSet(RepositoryDB[k])

\* The assets of the index named as the resolved request asks and tagged "latest".
LatestOfResolvedName ==
    {k \in 1..Len(RepositoryDB) :
        RepositoryDB[k].Name = resolved.name /\ "latest" \in TagSet(RepositoryDB[k])}

\* C6 as stated: for every asset whose recorded tags include "latest", the
\* tag-addressed lookup of (name, "latest") resolves to the same asset as the
\* digest-addressed lookup of (name, digest).
C6_LatestSameAsDigest ==
    (pc = "built" /\ resolved.kind = "tag" /\ resolved.key = "latest") =>
        \A k \in LatestOfResolvedName :
            lookupByDigest(RepositoryDB, 1, RepositoryDB[k].Name, RepositoryDB[k].SHA)
                = resolved.pos

\* C6 as amended: for every asset a whose recorded tags include "latest", the
\* tag-addressed lookup of (a.name, "latest") resolves to the first asset of that
\* name whose recorded tags include "latest", the digest-addressed lookup of
\* (a.name, a.digest) resolves to the first asset of that name and digest, and the
\* two are the same asset, a itself, when no earlier asset of the index has a's
\* name together with the tag "latest" or with a's digest.
C6_LatestFirstOnBoth ==
    (pc = "built" /\ resolved.kind = "tag" /\ resolved.key = "latest") =>
        \A k \in LatestOfResolvedName :
            LET a == RepositoryDB[k]
                d == lookupByDigest(RepositoryDB, 1, a.Name, a.SHA)
                t == resolved.pos
            IN  /\ t \in LatestOfResolvedName /\ \A j \in LatestOfResolvedName : t <= j
                /\ d \in 1..k
                /\ RepositoryDB[d].Name = a.Name /\ RepositoryDB[d].SHA = a.SHA
                /\ \A j \in 1..(d - 1) :
                      ~(RepositoryDB[j].Name = a.Name /\ RepositoryDB[j].SHA = a.SHA)
                /\ (\A j \in 1..(k - 1) :
                       /\ j \notin LatestOfResolvedName
                       /\ ~(RepositoryDB[j].Name = a.Name /\ RepositoryDB[j].SHA = a.SHA))
                   => (t = k /\ d = k)

\* C6 witness: the second asset of the index is the first of its name that is
\* tagged "latest", and both lookups resolved to it.
C6_Witness ==
    /\ pc = "built" /\ resolved.kind = "tag" /\ resolved.key = "latest"
    /\ Len(RepositoryDB) = 2
    /\ resolved.pos = 2
    /\ lookupByDigest(RepositoryDB, 1, RepositoryDB[2].Name, RepositoryDB[2].SHA) = 2

\* C7: a digest-addressed and a tag-addressed request that resolve to the same
\* asset and get the same pull result are answered identically: status 200, the
\* header Content-Disposition: attachment; filename={name}-{version}.tgz, and the
\* whole artifact as the body.
C7_SameResponse ==
    \A i, j \in 1..Len(reqs) :
        (/\ reqs[i].kind = "digest" /\ reqs[j].kind = "tag"
         /\ Done(i) /\ Done(j)
         /\ reqs[i].asset # 0 /\ reqs[i].asset = reqs[j].asset
         /\ reqs[i].chart = reqs[j].chart) =>
            /\ reqs[i].w = reqs[j].w
            /\ reqs[j].w.status = 200
            /\ reqs[j].w.disposition = Disposition(reqs[j].chart)
            /\ reqs[j].w.body = reqs[j].chart.data

\* C7 witness: both requests were answered with the same non-empty artifact.
C7_Witness ==
    \E i, j \in 1..Len(reqs) :
        /\ reqs[i].kind = "digest" /\ reqs[j].kind = "tag"
        /\ Done(i) /\ Done(j)
        /\ reqs[i].asset # 0 /\ reqs[i].asset = reqs[j].asset
        /\ reqs[i].chart = reqs[j].chart
        /\ Len(reqs[i].chart.data) > 0

\* C8: after the shutdown signal, (1) no connection is accepted once Shutdown
\* has been called (a connection accepted before may still deliver its request);
\* (2) a handler that returns before the process ends answers its request in
\* full, as it does without a shutdown: the artifact with status 200 for a
\* request that matched, the handler's usual answer for one that did not, and on
\* the metadata gateway 404 for a path the favicon check turns away, else 200 or
\* the backend error's 500; (3) Shutdown ends the process before the deadline
\* only when no connection is new or active, and after the deadline whether or
\* not one is; (4) once main waits for the signal and the signal has come, the
\* process eventually stops.
C8_GracefulShutdown ==
    /\ [][pc = "shutdown" => Len(reqs') = Len(reqs)]_vars
    /\ [][\A i \in 1..Len(reqs) :
            (pc = "shutdown" /\ ~Done(i) /\ reqs'[i].stage = "done") =>
                /\ reqs'[i].finishedIn = "shutdown"
                /\ reqs'[i].kind \in {"digest", "tag"} =>
                      IF reqs'[i].asset # 0
                      THEN /\ reqs'[i].w.status = 200
                           /\ reqs'[i].w.disposition = Disposition(reqs'[i].chart)
                           /\ reqs'[i].w.body = reqs'[i].chart.data
                      ELSE reqs'[i].w = Finish(NewW)
                /\ reqs'[i].kind = "meta" =>
                      IF reqs'[i].backendCalls = 0
                      THEN /\ reqs'[i].w.status = 404
                           /\ reqs'[i].w.body = NotFoundBody
                      ELSE reqs'[i].w.status = IF reqs'[i].err = "" THEN 200 ELSE 500]_vars
    /\ [](exitCause = "shutdownClean" => InFlight(reqs) = {})
    /\ [](exitCause = "shutdownTimeout" => graceExpired)
    /\ ((signalled /\ pc \in {"waitSignal", "shutdown"}) ~> pc = "exited")

\* C8 witness: the deadline passed and Shutdown ended the process with one
\* handler still in flight, after another handler, whose connection was accepted
\* before Shutdown was called, had answered its request with the artifact.
C8_Witness ==
    /\ exitCause = "shutdownTimeout"
    /\ \E j \in InFlight(reqs) : reqs[j].stage # "new"
    /\ \E i \in 1..Len(reqs) :
          /\ Done(i) /\ reqs[i].finishedIn = "shutdown"
          /\ reqs[i].asset # 0 /\ reqs[i].w.status = 200

\* C9: the index is built once, before serving, and never changes afterwards:
\* once the listener is bound, whatever requests run, RepositoryDB.Assets is what
\* it was when initDB returned.
C9_IndexFrozen ==
    gateway = "index" =>
        /\ builds <= 1
        /\ (listener \in {"bound", "closed"} \/ reqs # <<>>) =>
              (builds = 1 /\ RepositoryDB = builtIndex)

\* C9 witness: a digest-addressed and a tag-addressed handler are in flight
\* together over an index of two assets.
C9_Witness ==
    /\ Len(RepositoryDB) = 2 /\ RepositoryDB = builtIndex
    /\ \E i, j \in InFlight(reqs) : reqs[i].kind = "digest" /\ reqs[j].kind = "tag"

\* C10: a second index build against the unchanged listing leaves the index
\* with the same length, assets and order as the first build left it.
C10_RebuildIdempotent ==
    (pc = "built" /\ builds >= 2) => RepositoryDB = builtIndex

\* C11: within one completed index build no two entries of the index have the
\* same (name, digest) pair, whatever listing the build accepted: also one that
\* repeats an identifier or lists the same name@digest under two parent paths.
C11_NameDigestUnique ==
    (pc = "built" /\ builds = 1) =>
        \A j, k \in 1..Len(RepositoryDB) :
            (RepositoryDB[j].Name = RepositoryDB[k].Name
                /\ RepositoryDB[j].SHA = RepositoryDB[k].SHA) => j = k

\* strings.HasSuffix(s, suffix)
HasSuffix(s, suffix) ==
    Len(s) >= Len(suffix) /\ SubSeq(s, Len(s) - Len(suffix) + 1, Len(s)) = suffix

\* C12: on the metadata gateway a request whose path component ends in ".ico"
\* is answered 404 with the backend's metadata lookup called zero times for it;
\* a request whose path component does not end in ".ico" is not rejected by this
\* check and reaches the backend lookup.
C12_IcoSuffixOnly ==
    \A i \in 1..Len(reqs) :
        reqs[i].kind = "meta" =>
            IF HasSuffix(reqs[i].name, Ico)
            THEN /\ Done(i)
                 /\ reqs[i].w.status = 404
                 /\ reqs[i].backendCalls = 0
            ELSE \/ reqs[i].stage = "backend"
                 \/ reqs[i].backendCalls = 1

\* The tags the backend listed for an item.
ListedTags(item) == {item.tags[j] : j \in 1..Len(item.tags)}

\* C13: after the build each asset's recorded tags are exactly the tags the
\* backend listed for its item: for every listed item and every tag t, the tag
\* scan of the tag-addressed handler matches the item's asset on t exactly when t
\* was listed for the item, also when the item has two or more distinct tags.
C13_TagsAsListed ==
    (pc = "built" /\ builds = 1) =>
        \A k \in 1..Len(listing) :
            /\ TagSet(RepositoryDB[k]) = ListedTags(listing[k])
            /\ \A t \in Tags \cup {"v2"} :
                  tagMatches(RepositoryDB[k].Tags, 1, t) <=> t \in ListedTags(listing[k])

\* The positions of character c in s.
Positions(s, c) == {i \in 1..Len(s) : s[i] = c}

\* The part of s after its last "/" (s itself when it has none).
TrailingSegment(s) ==
    LET slashes == Positions(s, Slash)
        last == IF slashes = {} THEN 0
                ELSE CHOOSE i \in slashes : \A j \in slashes : j <= i
    IN  SubSeq(s, last + 1, Len(s))

\* C14: the parser succeeds exactly when the identifier has at least two
\* "/"-separated segments and its trailing segment holds exactly one "@"; the
\* name is then the part of the trailing segment before the "@" and the digest the
\* part after it; it fails when the "@" is absent, when it occurs more than once,
\* and when the identifier has fewer than two segments. initDB indexes the item
\* under that name and digest in the first case and returns the error otherwise.
C14_ParseExactly ==
    itPos = 1 =>
        LET input == listing[1].name
            trailing == TrailingSegment(input)
            ats == Positions(trailing, At)
            parsed == extractNameAndSha(input)
        IN  IF Positions(input, Slash) # {} /\ Cardinality(ats) = 1
            THEN LET at == CHOOSE i \in ats : TRUE
                 IN  /\ parsed.err = ""
                     /\ parsed.name = SubSeq(trailing, 1, at - 1)
                     /\ parsed.sha = SubSeq(trailing, at + 1, Len(trailing))
                     /\ pc \in {"initDB", "built"}
                     /\ Len(RepositoryDB) = 1
                     /\ RepositoryDB[1].Name = parsed.name
                     /\ RepositoryDB[1].SHA = parsed.sha
                     /\ RepositoryDB[1].RawName = input
            ELSE /\ parsed.err # ""
                 /\ pc = "buildFailed"
                 /\ RepositoryDB = <<>>

\* C14 witness: an identifier with an "@" in an earlier segment too was parsed
\* on its trailing segment and indexed.
C14_Witness ==
    /\ pc = "built"
    /\ listing = <<[name |-> <<At, Slash, "a", At, "b">>, uri |-> "u1", mediaType |-> "m",
                    tags |-> <<>>]>>
    /\ Len(RepositoryDB) = 1
    /\ RepositoryDB[1].Name = <<"a">>
    /\ RepositoryDB[1].SHA = <<"b">>

\* The uri of the asset request i resolved to.
OwnURI(i) == RepositoryDB[reqs[i].asset].URI

\* C15: (1) a request answered with artifact bytes has read the credential
\* file, logged in against its resolved asset's own uri with that credential and
\* pulled from that same uri; (2) a handler that has not pulled successfully has
\* written no status, header or body byte; (3) within a request the credential is
\* read before the login and the login is made before the pull; (4) every login
\* and every pull is one request's own: the step that makes it changes no other
\* request, and a request gets its login and its pull only by its own step.
C15_OwnLoginAndPull ==
    /\ [](\A i \in 1..Len(reqs) :
            (reqs[i].kind \in {"digest", "tag"} /\ Done(i) /\ reqs[i].w.body # <<>>) =>
                /\ reqs[i].asset # 0
                /\ reqs[i].credential = "_json_key"
                /\ reqs[i].loginAuth = reqs[i].credential
                /\ reqs[i].loginURI = OwnURI(i)
                /\ reqs[i].pullURI = OwnURI(i)
                /\ reqs[i].w.body = reqs[i].chart.data)
    /\ [](\A i \in 1..Len(reqs) :
            (reqs[i].kind \in {"digest", "tag"} /\ reqs[i].pullURI = "") =>
                (reqs[i].w = NewW \/ (Done(i) /\ reqs[i].asset = 0 /\ reqs[i].w.body = <<>>)))
    /\ [][\A i \in {k \in 1..Len(reqs) : reqs[k].kind \in {"digest", "tag"}} :
            /\ reqs'[i].credential # reqs[i].credential =>
                  (reqs[i].stage = "cred" /\ reqs[i].loginURI = "" /\ reqs[i].pullURI = "")
            /\ reqs'[i].loginURI # reqs[i].loginURI =>
                  /\ reqs[i].stage = "login" /\ reqs[i].credential # ""
                  /\ reqs[i].pullURI = ""
                  /\ reqs'[i].loginAuth = reqs[i].credential
                  /\ reqs'[i].loginURI = OwnURI(i)
            /\ reqs'[i].pullURI # reqs[i].pullURI =>
                  /\ reqs[i].stage = "pull" /\ reqs[i].loginURI = OwnURI(i)
                  /\ reqs'[i].pullURI = OwnURI(i)
            /\ (reqs[i].stage = "login" /\ reqs'[i].stage = "pull") =>
                  reqs'[i].loginURI # reqs[i].loginURI
            /\ (reqs[i].stage = "pull" /\ reqs'[i].stage = "done") =>
                  reqs'[i].pullURI # reqs[i].pullURI
            /\ \A j \in 1..Len(reqs) :
                  (j # i /\ (reqs'[i].loginURI # reqs[i].loginURI
                                \/ reqs'[i].pullURI # reqs[i].pullURI)) =>
                      reqs'[j] = reqs[j]]_vars

\* C15 witness: two requests resolved to the same asset; one has been answered
\* with the artifact's bytes after its own login and pull, the other has made its
\* own login and has its pull still to come.
C15_Witness ==
    \E i, j \in 1..Len(reqs) :
        /\ i # j
        /\ reqs[i].asset # 0 /\ reqs[i].asset = reqs[j].asset
        /\ Done(i) /\ reqs[i].w.body # <<>>
        /\ reqs[i].loginURI = OwnURI(i) /\ reqs[i].pullURI = OwnURI(i)
        /\ reqs[j].stage = "pull" /\ reqs[j].loginURI = OwnURI(j) /\ reqs[j].w = NewW

====
